---- MODULE Spec2Model ----
(***************************************************************************)
(* A model of the `concat` helper of handlebars-concat (src/src/lib.rs):   *)
(* HandlebarsConcat::call and create_block.  One invocation of call is a   *)
(* process whose position is pc; the block template (the sub-render         *)
(* callback) belongs to the handlebars engine: the model draws it from a   *)
(* small family of templates and logs every render of it in `calls`.       *)
(*                                                                         *)
(* Texts (Rust Strings) are sequences of one-character strings, so that    *)
(* quoting, joining and emptiness are computed and not assumed.            *)
(***************************************************************************)
EXTENDS Integers, Sequences, FiniteSets, TLC

\* Bound of the model: the number of values in the arguments of one invocation
\* (an argument counts 1, and each array item or object entry 1 more).
MaxSize == 3

\* Option<T> as a sequence of length 0 or 1.
None == <<>>
Some(x) == <<x>>

IsSome(o) == Len(o) = 1

----------------------------------------------------------------------------
(* serde_json values, as far as the helper tells them apart.               *)

Json(t, b, n, s, items, ent) ==
    [t |-> t, b |-> b, n |-> n, s |-> s, items |-> items, ent |-> ent]

Null == Json("null", FALSE, 0, <<>>, <<>>, <<>>)

Bool(b) == Json("bool", b, 0, <<>>, <<>>, <<>>)

Num(n) == Json("num", FALSE, n, <<>>, <<>>, <<>>)

Str(s) == Json("str", FALSE, 0, s, <<>>, <<>>)

Arr(items) == Json("arr", FALSE, 0, <<>>, items, <<>>)

\* ent: the entries [key, val] in the order serde_json's Map iterates them.
Obj(ent) == Json("obj", FALSE, 0, <<>>, <<>>, ent)

\* is_string taking a number for a string as well (C3_SingleString tells the
\* two apart).
is_string_or_number(v) == v.t \in {"str", "num"}

is_string(v) == v.t = "str"

is_array(v) == v.t = "arr"

is_object(v) == v.t = "obj"

DigitChar == <<"0", "1", "2", "3", "4", "5", "6", "7", "8", "9">>

RECURSIVE DecimalText(_)
DecimalText(n) ==
    IF n < 10 THEN <<DigitChar[n + 1]>>
    ELSE DecimalText(n \div 10) \o <<DigitChar[(n % 10) + 1]>>

\* JsonRender::render on a scalar: a string verbatim, a boolean or a number
\* printed, null as the empty text.
render(v) ==
    CASE v.t = "str" -> v.s
      [] v.t = "bool" -> IF v.b THEN <<"t", "r", "u", "e">>
                         ELSE <<"f", "a", "l", "s", "e">>
      [] v.t = "num" -> DecimalText(v.n)
      [] v.t = "null" -> <<>>

\* PathAndJson: a value and, when it was looked up in the context, its path.
PathAndJson(context_path, value) ==
    [context_path |-> context_path, value |-> value]

----------------------------------------------------------------------------
(* create_block, lines 9-20.                                               *)

\* BlockContext::new(): no base path, no base value.
BlockContextNew == [base_path |-> <<>>, base_value |-> None]

\* create_block without its path branch (C9_ScopeChoice tells the two apart).
create_block_by_value(param) ==
    [BlockContextNew EXCEPT !.base_value = Some(param.value)]

create_block(param) ==
    IF IsSome(param.context_path)
    THEN [BlockContextNew EXCEPT !.base_path = param.context_path[1]]
    ELSE [BlockContextNew EXCEPT !.base_value = Some(param.value)]

\* RenderContext::push_block and pop_block, lines 178 and 184.
push_block(blocks, block) == Append(blocks, block)

\* pop_block leaving the stack as it is (C10_BlocksBalancedUnlessFailed tells
\* the two apart).
pop_block_skipped(blocks) == blocks

pop_block(blocks) == SubSeq(blocks, 1, Len(blocks) - 1)

----------------------------------------------------------------------------
(* The block template, rendered by the handlebars engine (lines 180-182).  *)

\* The context the template is rendered against: the value at each path.
Lookup(path) == IF path = <<"s">> THEN Str(<<"a">>) ELSE Null

\* The value `this` stands for under a block.
ScopeValue(block) ==
    IF IsSome(block.base_value) THEN block.base_value[1]
    ELSE Lookup(block.base_path)

\* "this": {{this}}; "literal": the text b; "checked": {{this}} through a
\* helper that rejects a number with a RenderError.
Templates == {"this", "literal", "checked"}

Ok(text) == [ok |-> TRUE, text |-> text]

Err == [ok |-> FALSE, text |-> <<>>]

RenderTemplate(t, block) ==
    CASE t = "this" -> Ok(render(ScopeValue(block)))
      [] t = "literal" -> Ok(<<"b">>)
      [] t = "checked" -> IF ScopeValue(block).t = "num" THEN Err
                          ELSE Ok(render(ScopeValue(block)))

----------------------------------------------------------------------------
(* The pieces of HandlebarsConcat::call.                                   *)

QUOTES_DOUBLE == <<"\"">>

QUOTES_SINGLE == <<"'">>

\* lines 152-160
quotation_mark(quotes, single_quote) ==
    IF quotes
    THEN (IF single_quote THEN QUOTES_SINGLE ELSE QUOTES_DOUBLE)
    ELSE <<>>

\* format!("{}{}{}", quotation_mark, text, quotation_mark) when quotes is set.
Quoted(text, quotes, single_quote) ==
    IF quotes
    THEN quotation_mark(quotes, single_quote) \o text
             \o quotation_mark(quotes, single_quote)
    ELSE text

\* Vec::contains
Contains(output, text) == \E k \in 1..Len(output) : output[k] = text

\* lines 193-195 (and 235-237, 290-292): the result of a block render.
PushRendered(output, result, distinct) ==
    IF result /= <<>> /\ (~Contains(output, result) \/ ~distinct)
    THEN Append(output, result)
    ELSE output

\* lines 204-206: a string argument in its default form.
PushValue(output, value, distinct) ==
    IF ~Contains(output, value) \/ ~distinct
    THEN Append(output, value)
    ELSE output

\* lines 241-260 and 298-317: the texts are filtered against the output as it
\* is before the append (the filter closure reads `output`, the append runs
\* after collect()).
AppendFiltered(output, texts, distinct) ==
    output \o SelectSeq(texts, LAMBDA item : IF distinct
                                             THEN ~Contains(output, item)
                                             ELSE TRUE)

\* lines 242-251: the items of an array in their default form.
ItemTexts(hh, v) ==
    [k \in 1..Len(v.items) |-> Quoted(render(v.items[k]), hh.quotes, hh.single_quote)]

\* KeyTexts taking the values of the object instead of its keys
\* (C4_MappingKeysKept tells the two apart).
ValueTexts(hh, v) ==
    [k \in 1..Len(v.ent) |-> Quoted(render(v.ent[k].val), hh.quotes, hh.single_quote)]

\* lines 299-308: the keys of an object.
KeyTexts(hh, v) ==
    [k \in 1..Len(v.ent) |-> Quoted(v.ent[k].key, hh.quotes, hh.single_quote)]

\* separator without the option (C8_SeparatorLaw tells the two apart).
separator_default(hh) == <<",">>

\* lines 141-145
separator(hh) ==
    IF IsSome(hh.separator) THEN render(hh.separator[1].value) ELSE <<",">>

\* [String]::join
RECURSIVE join(_, _)
join(output, sep) ==
    IF Len(output) = 0 THEN <<>>
    ELSE IF Len(output) = 1 THEN output[1]
    ELSE output[1] \o sep \o join(Tail(output), sep)

\* UsesTemplate without render_all (C7_CallbackUse tells the two apart).
UsesTemplateAlways(hh, p) ==
    hh.is_block /\ (is_string(p.value) \/ is_array(p.value) \/ is_object(p.value))

\* Whether the argument goes through the block template (lines 172, 210, 265).
UsesTemplate(hh, p) ==
    \/ is_string(p.value) /\ hh.is_block /\ hh.render_all
    \/ is_array(p.value) /\ hh.is_block /\ hh.render_all
    \/ is_object(p.value) /\ hh.is_block

\* The parameters pushed as blocks for one argument: the argument itself
\* (line 177), each array item (216-219) or each object value (271-274).
Scopes(p) ==
    CASE is_string(p.value) -> <<p>>
      [] is_array(p.value) ->
            [k \in 1..Len(p.value.items) |->
                PathAndJson(None, p.value.items[k])]
      [] is_object(p.value) ->
            [k \in 1..Len(p.value.ent) |->
                PathAndJson(None, p.value.ent[k].val)]
      [] OTHER -> <<>>

----------------------------------------------------------------------------
(* The inputs.                                                             *)

Items == {Str(<<"a">>), Str(<<>>), Num(1)}

\* The k-th key of an object, "a", "aa", ... (distinct, in the map's order),
\* and the value stored under it.
Key(k) == [x \in 1..k |-> "a"]

Entry(k) == [key |-> Key(k), val |-> IF k % 2 = 1 THEN Str(<<"b">>) ELSE Num(k)]

\* The objects of n entries: the increasing choices of n keys.
ObjectsOf(n) ==
    {Obj([x \in 1..n |-> Entry(ks[x])]) : ks \in
        {c \in [1..n -> 1..(MaxSize - 1)] : \A x \in 1..(n - 1) : c[x] < c[x + 1]}}

ScalarParams ==
    {PathAndJson(None, v) : v \in {Null, Bool(TRUE), Num(1), Str(<<>>), Str(<<"a">>)}}
    \cup {PathAndJson(Some(<<"s">>), Str(<<"a">>))}

\* The arguments that hold n values.
ParamsOfSize(n) ==
    (IF n = 1 THEN ScalarParams ELSE {})
    \cup {PathAndJson(Some(<<"arr">>), Arr(items)) : items \in [1..(n - 1) -> Items]}
    \cup {PathAndJson(Some(<<"obj">>), v) : v \in ObjectsOf(n - 1)}

\* The argument lists that hold at most n values.
RECURSIVE ParamLists(_)
ParamLists(n) ==
    {<<>>} \cup UNION {{<<p>> \o rest : p \in ParamsOfSize(k), rest \in ParamLists(n - k)} :
                        k \in 1..n}

Separators == {None, Some(PathAndJson(None, Str(<<";", " ">>)))}

\* A block helper carries its block template, an inline helper carries none.
Helpers ==
    {hh \in [params : ParamLists(MaxSize),
             separator : Separators,
             distinct : BOOLEAN, quotes : BOOLEAN, single_quote : BOOLEAN,
             render_all : BOOLEAN, is_block : BOOLEAN,
             template : {None} \cup {Some(t) : t \in Templates}] :
        hh.is_block = IsSome(hh.template)}

\* The render context's block stack when the helper is entered.
EntryBlocks == <<BlockContextNew>>

----------------------------------------------------------------------------
VARIABLES h, pc, i, j, output, content, blocks, calls, out, result

vars == <<h, pc, i, j, output, content, blocks, calls, out, result>>

Init ==
    /\ h \in Helpers
    /\ pc = "param"
    /\ i = 1
    /\ j = 1
    /\ output = <<>>
    /\ content = None
    /\ blocks = EntryBlocks
    /\ calls = <<>>
    /\ out = <<>>
    /\ result = "running"

param == h.params[i]

\* line 168: the loop is over.
ParamsDone ==
    /\ pc = "param"
    /\ i > Len(h.params)
    /\ pc' = "write"
    /\ UNCHANGED <<h, i, j, output, content, blocks, calls, out, result>>

\* lines 171, 208, 263: an argument that is no string, array or object.
ParamOther ==
    /\ pc = "param"
    /\ i <= Len(h.params)
    /\ ~is_string(param.value) /\ ~is_array(param.value) /\ ~is_object(param.value)
    /\ i' = i + 1
    /\ UNCHANGED <<h, pc, j, output, content, blocks, calls, out, result>>

\* lines 197-207
ParamStringDefault ==
    /\ pc = "param"
    /\ i <= Len(h.params)
    /\ is_string(param.value)
    /\ ~(h.is_block /\ h.render_all)
    /\ output' = PushValue(output,
                           Quoted(render(param.value), h.quotes, h.single_quote),
                           h.distinct)
    /\ i' = i + 1
    /\ UNCHANGED <<h, pc, j, content, blocks, calls, out, result>>

\* lines 240-261
ParamArrayDefault ==
    /\ pc = "param"
    /\ i <= Len(h.params)
    /\ is_array(param.value)
    /\ ~(h.is_block /\ h.render_all)
    /\ output' = AppendFiltered(output, ItemTexts(h, param.value), h.distinct)
    /\ i' = i + 1
    /\ UNCHANGED <<h, pc, j, content, blocks, calls, out, result>>

\* lines 295-318
ParamObjectKeys ==
    /\ pc = "param"
    /\ i <= Len(h.params)
    /\ is_object(param.value)
    /\ ~h.is_block
    /\ output' = AppendFiltered(output, KeyTexts(h, param.value), h.distinct)
    /\ i' = i + 1
    /\ UNCHANGED <<h, pc, j, content, blocks, calls, out, result>>

\* lines 172, 210-213, 265-268: enter the block-template branch.
ParamTemplate ==
    /\ pc = "param"
    /\ i <= Len(h.params)
    /\ UsesTemplate(h, param)
    /\ j' = 1
    /\ pc' = "push"
    /\ UNCHANGED <<h, i, output, content, blocks, calls, out, result>>

\* lines 213, 268: no element is left, on to the next argument.
ElementsDone ==
    /\ pc = "push"
    /\ j > Len(Scopes(param))
    /\ i' = i + 1
    /\ pc' = "param"
    /\ UNCHANGED <<h, j, output, content, blocks, calls, out, result>>

\* lines 175-178, 214-220, 269-275
PushBlock ==
    /\ pc = "push"
    /\ j <= Len(Scopes(param))
    /\ content' = Some(<<>>)
    /\ blocks' = push_block(blocks, create_block(Scopes(param)[j]))
    /\ pc' = "render"
    /\ UNCHANGED <<h, i, j, output, calls, out, result>>

\* The outcome of lines 180-182: without a template nothing is rendered and
\* the result is Ok(()).
Rendered ==
    IF IsSome(h.template) THEN RenderTemplate(h.template[1], blocks[Len(blocks)])
    ELSE Ok(<<>>)

Call == [scope |-> blocks[Len(blocks)], depth |-> Len(blocks), ok |-> Rendered.ok]

\* lines 180-182: the template renders into content.
RenderOk ==
    /\ pc = "render"
    /\ Rendered.ok
    /\ content' = Some(content[1] \o Rendered.text)
    /\ calls' = IF IsSome(h.template) THEN Append(calls, Call) ELSE calls
    /\ pc' = "pop"
    /\ UNCHANGED <<h, i, j, output, blocks, out, result>>

\* RenderErr without the `?`: the error is dropped and the loop goes on
\* (C6_RenderErrorAborts tells the two apart).
RenderErrDropped ==
    /\ pc = "render"
    /\ ~Rendered.ok
    /\ calls' = Append(calls, Call)
    /\ pc' = "pop"
    /\ UNCHANGED <<h, i, j, output, content, blocks, out, result>>

\* lines 180-182: the render fails and `?` returns the error.
RenderErr ==
    /\ pc = "render"
    /\ ~Rendered.ok
    /\ calls' = Append(calls, Call)
    /\ result' = "Err"
    /\ pc' = "done"
    /\ UNCHANGED <<h, i, j, output, content, blocks, out>>

\* lines 184-196
PopBlock ==
    /\ pc = "pop"
    /\ blocks' = pop_block(blocks)
    /\ output' = PushRendered(output,
                              Quoted(content[1], h.quotes, h.single_quote),
                              h.distinct)
    /\ content' = None
    /\ j' = j + 1
    /\ pc' = "push"
    /\ UNCHANGED <<h, i, calls, out, result>>

\* lines 323-325
Write ==
    /\ pc = "write"
    /\ out' = Append(out, join(output, separator(h)))
    /\ result' = "Ok"
    /\ pc' = "done"
    /\ UNCHANGED <<h, i, j, output, content, blocks, calls>>

\* line 323: the sink refuses the write and `?` returns the error.
WriteErr ==
    /\ pc = "write"
    /\ result' = "Err"
    /\ pc' = "done"
    /\ UNCHANGED <<h, i, j, output, content, blocks, calls, out>>

Next ==
    \/ ParamsDone
    \/ ParamOther
    \/ ParamStringDefault
    \/ ParamArrayDefault
    \/ ParamObjectKeys
    \/ ParamTemplate
    \/ ElementsDone
    \/ PushBlock
    \/ RenderOk
    \/ RenderErr
    \/ PopBlock
    \/ Write
    \/ WriteErr

Spec == Init /\ [][Next]_vars

----------------------------------------------------------------------------
(* The invocation as a function of the helper, built from the same pieces  *)
(* as the actions: what call leaves in `output`, or that it failed.        *)

\* The for loops of lines 213-239 and 268-294 (and the single render of
\* lines 175-196) from the k-th scope on.
RECURSIVE RenderFrom(_, _, _, _)
RenderFrom(hh, scopes, k, buf) ==
    IF k > Len(scopes) THEN [ok |-> TRUE, output |-> buf]
    ELSE LET r == IF IsSome(hh.template)
                  THEN RenderTemplate(hh.template[1], create_block(scopes[k]))
                  ELSE Ok(<<>>)
         IN  IF ~r.ok THEN [ok |-> FALSE, output |-> buf]
             ELSE RenderFrom(hh, scopes, k + 1,
                     PushRendered(buf, Quoted(r.text, hh.quotes, hh.single_quote),
                                  hh.distinct))

\* The loop of lines 168-321 from the k-th argument on.
RECURSIVE CallFrom(_, _, _)
CallFrom(hh, k, buf) ==
    IF k > Len(hh.params) THEN [ok |-> TRUE, output |-> buf]
    ELSE LET p == hh.params[k]
         IN  IF UsesTemplate(hh, p)
             THEN LET r == RenderFrom(hh, Scopes(p), 1, buf)
                  IN  IF r.ok THEN CallFrom(hh, k + 1, r.output) ELSE r
             ELSE IF is_string(p.value)
             THEN CallFrom(hh, k + 1,
                     PushValue(buf, Quoted(render(p.value), hh.quotes, hh.single_quote),
                               hh.distinct))
             ELSE IF is_array(p.value)
             THEN CallFrom(hh, k + 1,
                     AppendFiltered(buf, ItemTexts(hh, p.value), hh.distinct))
             ELSE IF is_object(p.value)
             THEN CallFrom(hh, k + 1,
                     AppendFiltered(buf, KeyTexts(hh, p.value), hh.distinct))
             ELSE CallFrom(hh, k + 1, buf)

Concat(hh) == CallFrom(hh, 1, <<>>)

\* The function and the process agree on every invocation.
ConcatAgrees ==
    pc = "done" =>
        /\ Concat(h).output = output
        /\ Concat(h).ok = (\A k \in 1..Len(calls) : calls[k].ok)

----------------------------------------------------------------------------
(* Helpers of the properties.                                              *)

NoRepeat(seq) == \A x, y \in 1..Len(seq) : seq[x] = seq[y] => x = y

\* A text without the quotation mark at its head and at its tail.
Unquoted(text, mark) ==
    IF Len(mark) = 0 THEN text
    ELSE IF Len(text) >= 2 /\ text[1] = mark[1] /\ text[Len(text)] = mark[1]
    THEN SubSeq(text, 2, Len(text) - 1)
    ELSE text

Mark == quotation_mark(h.quotes, h.single_quote)

RenderFailed == \E k \in 1..Len(calls) : ~calls[k].ok

----------------------------------------------------------------------------
(* C1 *)

\* C1: with distinct present the output buffer never holds two equal strings,
\* at any point of an invocation, whatever the arguments and the other options
\* are (a Sequence holding the same value twice contributes it once).
C1_DistinctNoRepeat == h.distinct => NoRepeat(output)

----------------------------------------------------------------------------
(* C2 *)

\* C2: no element of the output buffer is empty once its quotation marks are
\* removed: a candidate whose unquoted text is empty is never appended, from
\* the default stringification or from the block template, quoted or not.
C2_NoEmptyElement ==
    \A k \in 1..Len(output) : Unquoted(output[k], Mark) /= <<>>

----------------------------------------------------------------------------
(* C5 *)

\* C5: for the same arguments, template and other options, the elements
\* produced with quotes set, each without its leading and trailing mark, are
\* the elements produced without quotes: same elements, number and order.
C5_QuotesStructural ==
    (pc = "done" /\ h.quotes /\ ~RenderFailed) =>
        [k \in 1..Len(output) |-> Unquoted(output[k], Mark)]
            = Concat([h EXCEPT !.quotes = FALSE]).output

----------------------------------------------------------------------------
(* C3 *)

SingleScalar ==
    /\ pc = "done" /\ result = "Ok"
    /\ Len(h.params) = 1
    /\ h.params[1].value.t \in {"bool", "num", "str"}
    /\ ~h.is_block /\ ~h.quotes

\* C3: an invocation with exactly one argument x that is a boolean, a number
\* or a string, no block template and any separator writes the default literal
\* text of x.
C3_SingleScalar == SingleScalar => out = <<render(h.params[1].value)>>

\* C3, amended: an invocation with exactly one argument x, no block template
\* and any separator writes x when x is a string, and the empty text when x is
\* a boolean or a number (only strings, arrays and objects are arguments the
\* helper looks at).
C3_SingleString ==
    SingleScalar =>
        IF h.params[1].value.t = "str"
        THEN out = <<h.params[1].value.s>>
        ELSE out = << <<>> >>

C3_Witness ==
    /\ SingleScalar
    /\ h.params[1].value.t = "num"
    /\ IsSome(h.separator)
    /\ out = << <<>> >>

----------------------------------------------------------------------------
(* C4 *)

\* The step that handles an object argument when there is no block template.
KeysStep ==
    /\ pc = "param" /\ i <= Len(h.params)
    /\ is_object(h.params[i].value) /\ ~IsSome(h.template)

MarkedKeys == [k \in 1..Len(h.params[i].value.ent) |->
                  Mark \o h.params[i].value.ent[k].key \o Mark]

\* C4: an object argument of an invocation without a block template
\* contributes exactly its keys (quoted when quotes is set), in key order,
\* whatever distinct and quotes are; the template is not rendered and the
\* values are not used.
C4_MappingKeysOnly ==
    [][KeysStep => (output' = output \o MarkedKeys /\ calls' = calls)]_vars

\* C4, amended: such an argument contributes its keys (quoted when quotes is
\* set), in key order, less - when distinct is present - the keys whose text
\* the output buffer already held before the argument; the template is not
\* rendered and the values are not used.
C4_MappingKeysKept ==
    [][KeysStep =>
        /\ calls' = calls
        /\ Len(output') >= Len(output)
        /\ SubSeq(output', 1, Len(output)) = output
        /\ SubSeq(output', Len(output) + 1, Len(output'))
              = SelectSeq(MarkedKeys,
                          LAMBDA t : ~h.distinct \/ \A k \in 1..Len(output) : output[k] /= t)
      ]_vars

C4_Witness ==
    /\ pc = "param" /\ i = 3
    /\ ~IsSome(h.template) /\ h.distinct
    /\ is_string(h.params[1].value)
    /\ is_object(h.params[2].value) /\ Len(h.params[2].value.ent) = 1
    /\ output = <<Mark \o h.params[2].value.ent[1].key \o Mark>>

----------------------------------------------------------------------------
(* C6 *)

\* C6: when a render of the block template fails, the invocation returns the
\* error at once: the failed render is the last one (no retry, no later
\* element or argument), the position stays at the failing element, and
\* nothing is written to the sink.
C6_RenderErrorAborts ==
    \A k \in 1..Len(calls) :
        ~calls[k].ok =>
            /\ k = Len(calls)
            /\ pc = "done" /\ result = "Err"
            /\ out = <<>>
            /\ i <= Len(h.params) /\ j <= Len(Scopes(h.params[i]))
            /\ calls[k].scope.base_value \in {None, Some(Scopes(h.params[i])[j].value)}

C6_Witness ==
    /\ RenderFailed
    /\ pc = "done" /\ result = "Err"
    /\ Len(calls) = 2
    /\ Len(output) = 1
    /\ out = <<>>

----------------------------------------------------------------------------
(* C7 *)

\* Whether the claim sends the argument through the block template, and the
\* renders it then expects for it.
TemplateExpected(p) ==
    CASE p.value.t \in {"str", "arr"} -> IsSome(h.template) /\ h.render_all
      [] p.value.t = "obj" -> IsSome(h.template)
      [] OTHER -> FALSE

ElementCount(p) ==
    CASE p.value.t = "str" -> 1
      [] p.value.t = "arr" -> Len(p.value.items)
      [] p.value.t = "obj" -> Len(p.value.ent)
      [] OTHER -> 0

ExpectedCalls(p) == IF TemplateExpected(p) THEN ElementCount(p) ELSE 0

RECURSIVE ExpectedCallsBefore(_)
ExpectedCallsBefore(k) ==
    IF k <= 1 THEN 0
    ELSE ExpectedCallsBefore(k - 1) + ExpectedCalls(h.params[k - 1])

\* The default literal texts of the string and array arguments before the k-th.
RECURSIVE LiteralsBefore(_)
LiteralsBefore(k) ==
    IF k <= 1 THEN <<>>
    ELSE LET v == h.params[k - 1].value
         IN  LiteralsBefore(k - 1) \o
               (CASE v.t = "str" -> <<Mark \o v.s \o Mark>>
                  [] v.t = "arr" -> [x \in 1..Len(v.items) |->
                                        Mark \o render(v.items[x]) \o Mark]
                  [] OTHER -> <<>>)

NoObjectBefore(k) == \A x \in 1..(k - 1) : h.params[x].value.t /= "obj"

\* C7: the block template is rendered for a string argument and for each
\* element of an array argument iff a template is present and render_all is
\* set, and otherwise their text is the default literal form; it is rendered
\* for each value of an object argument iff a template is present.
C7_CallbackUse ==
    /\ (pc \in {"param", "write"} \/ (pc = "done" /\ ~RenderFailed)) =>
          Len(calls) = ExpectedCallsBefore(i)
    /\ (pc \in {"push", "render", "pop"} \/ RenderFailed) =>
          /\ TemplateExpected(h.params[i])
          /\ j <= ElementCount(h.params[i]) + (IF pc = "push" THEN 1 ELSE 0)
          /\ Len(calls) = ExpectedCallsBefore(i) + (j - 1)
                            + (IF pc = "pop" \/ RenderFailed THEN 1 ELSE 0)
    /\ (pc = "param" /\ ~(IsSome(h.template) /\ h.render_all)
            /\ ~h.distinct /\ NoObjectBefore(i)) =>
          output = LiteralsBefore(i)

C7_Witness ==
    /\ pc = "done" /\ result = "Ok"
    /\ IsSome(h.template) /\ ~h.render_all
    /\ Len(h.params) = 2
    /\ is_string(h.params[1].value)
    /\ is_object(h.params[2].value)
    /\ Len(calls) = 1
    /\ output[1] = Mark \o h.params[1].value.s \o Mark

----------------------------------------------------------------------------
(* C8 *)

\* The separator the claim expects.
Sep == IF IsSome(h.separator) THEN render(h.separator[1].value) ELSE <<",">>

\* Where the k-th element starts in the joined text, less one.
RECURSIVE Offset(_)
Offset(k) == IF k <= 1 THEN 0 ELSE Offset(k - 1) + Len(output[k - 1]) + Len(Sep)

IsJoined(text) ==
    /\ Len(text) = IF Len(output) = 0 THEN 0
                   ELSE Offset(Len(output)) + Len(output[Len(output)])
    /\ \A k \in 1..Len(output) :
          /\ SubSeq(text, Offset(k) + 1, Offset(k) + Len(output[k])) = output[k]
          /\ k < Len(output) =>
                SubSeq(text, Offset(k) + Len(output[k]) + 1, Offset(k + 1)) = Sep

\* C8: a successful invocation writes to the sink exactly the elements of the
\* output buffer in order with the separator between adjacent elements and
\* nowhere else; the separator is the rendered option, or "," without it.
C8_SeparatorLaw ==
    (pc = "done" /\ result = "Ok") => (Len(out) = 1 /\ IsJoined(out[1]))

C8_Witness ==
    /\ pc = "done" /\ result = "Ok"
    /\ IsSome(h.separator)
    /\ Len(output) = 3
    /\ output[2] = <<>>
    /\ output[3] /= <<>>

----------------------------------------------------------------------------
(* C9 *)

\* The scope the claim expects for the element being rendered.
ExpectedScope ==
    LET p == h.params[i]
    IN  CASE p.value.t = "str" ->
                IF IsSome(p.context_path)
                THEN [base_path |-> p.context_path[1], base_value |-> None]
                ELSE [base_path |-> <<>>, base_value |-> Some(p.value)]
          [] p.value.t = "arr" ->
                [base_path |-> <<>>, base_value |-> Some(p.value.items[j])]
          [] p.value.t = "obj" ->
                [base_path |-> <<>>, base_value |-> Some(p.value.ent[j].val)]

\* C9: every render of the block template runs under a scope that reuses the
\* path of a string argument that has one, holds the value of a string
\* argument that has none, and holds the element's own value, without a path,
\* for every array element and every object value.
C9_ScopeChoice ==
    (pc \in {"render", "pop"} \/ RenderFailed) =>
        /\ blocks[Len(blocks)] = ExpectedScope
        /\ (pc /= "render" /\ IsSome(h.template)) =>
              calls[Len(calls)].scope = ExpectedScope

C9_Witness ==
    /\ pc = "pop"
    /\ is_array(h.params[i].value) /\ IsSome(h.params[i].context_path)
    /\ j = 2
    /\ Len(calls) = 2
    /\ calls[2].scope.base_path = <<>>
    /\ calls[2].scope.base_value = Some(h.params[i].value.items[2])

----------------------------------------------------------------------------
(* C10 *)

\* C10: every scope the helper pushes is popped before the invocation
\* returns, on success and on a render failure alike, so the block stack is
\* then as deep as on entry; at most one scope of the helper is on the stack
\* at any time.
C10_BlocksBalanced ==
    /\ pc = "done" => Len(blocks) = Len(EntryBlocks)
    /\ Len(blocks) <= Len(EntryBlocks) + 1

\* C10, amended: every scope the helper pushes is popped before the next one
\* is pushed and before a return that no render failure causes, so the block
\* stack is then as on entry; a render failure returns with the scope of the
\* failing element still on the stack (one deeper than on entry); at most one
\* scope of the helper is on the stack at any time.
C10_BlocksBalancedUnlessFailed ==
    /\ (pc = "done" /\ ~RenderFailed) => blocks = EntryBlocks
    /\ pc \in {"param", "push", "write"} => blocks = EntryBlocks
    /\ RenderFailed =>
          /\ pc = "done"
          /\ Len(blocks) = Len(EntryBlocks) + 1
          /\ SubSeq(blocks, 1, Len(EntryBlocks)) = EntryBlocks
    /\ Len(blocks) <= Len(EntryBlocks) + 1

C10_Witness ==
    /\ pc = "done" /\ result = "Ok"
    /\ Len(calls) >= 2
    /\ blocks = EntryBlocks

====
